---- MODULE Spec2Model ----
(***************************************************************************)
(* Session-routing engine of TelegramThingie.                              *)
(*                                                                         *)
(* The model follows src/src/services/session_service.py (SessionService)  *)
(* and src/src/channels/telegram/bot.py (TelegramBot).  Every update       *)
(* handler is a coroutine on one event loop; it is modelled as a task      *)
(* whose pc names the storage await it is suspended at.  One step of a     *)
(* task is the effect of the awaited storage call followed by the code up  *)
(* to the next storage await, so tasks interleave at their storage awaits. *)
(* Nothing happens between the arrival of an update and the first storage  *)
(* await of its handler, so the arrival is part of that first step.        *)
(* An await on the provider client (send_message, answer_callback_query)   *)
(* reads and writes nothing of the router, so it is part of a step of a    *)
(* storage await next to it: a raw client call, whose exception ends the   *)
(* handler, goes with the storage await before it; the send inside         *)
(* TelegramBot.send_message, whose outcome is only recorded, goes with the *)
(* add_message_to_session that records it.                                 *)
(* Timestamps: created_at is the rank of the insert; updated_at counts the *)
(* times the row's timestamp was rewritten (the code reads timestamps only *)
(* in ORDER BY clauses).                                                   *)
(*                                                                         *)
(* Specifications: Spec runs the handlers of the commands and callbacks    *)
(* from the empty table; SpecUpd runs them from any table in which every   *)
(* client has one session, and SpecTxt runs the handlers of every kind of  *)
(* update (texts, replies of an on_message_callback) from there; SpecFM    *)
(* and SpecSvc call single SessionService methods on any table.  SpecWH    *)
(* follows src/app/webhook_server.py (WebhookServer): every request has a  *)
(* thread of its own, and the coroutine it hands to the event loop runs    *)
(* apart from it; SpecWHLive adds the scheduling of the request threads.   *)
(* SpecLog follows src/src/utils/logger.py (Logger), the one logger of the *)
(* process.                                                                *)
(***************************************************************************)
EXTENDS Integers, Sequences, FiniteSets, Bags, TLC

\* ---------------------------------------------------------------- bounds
\* number of inbound updates handed to the dispatcher in one behaviour
MaxUpdates == 4

\* ------------------------------------------------------- configuration
Bots == {"b1"}
Chats == {"c1", "c2"}

\* clients that own a session before the first update of SpecUpd
MaxClients == 3

\* updates handed to handle_update in SpecUpd
MaxArrivals == 1

\* the chat of the client whose session is row rank
ChatOf(rank) == "c" \o ToString(rank)

\* every (bot_id, chat_id) that can own a row
CacheKeys == Bots \X (Chats \cup {ChatOf(i) : i \in 1..MaxClients})
Managers == {"m1", "m2"}
\* slots for coroutines in flight on the event loop at the same time
Tasks == {1, 2}

\* TelegramBot.manager_ids of each bot (a list, in configured order)
manager_ids == [b \in Bots |-> <<"m1", "m2">>]

\* Session.manager_id before a manager is bound (NULL column)
NoManager == "none"
\* "no row" / "no cache entry" for a session_id
NoSession == 0

VARIABLES
    sessions,         \* table sessions: session_id -> row (ids 1..Len)
    messages,         \* table messages: message_id -> row (ids 1..Len)
    active_sessions,  \* SessionService.active_sessions (routing cache)
    tasks,            \* handler coroutines in flight (a bag of their local states)
    n_updates,        \* updates handed to handle_update so far
    accepted,         \* history: session_id -> managers whose accept_session returned True
    last,             \* history: what a router operation returned in the last step
    sent,             \* the provider calls the last step made, in order
    update,           \* the update handed to handle_update by the last step
    requests,         \* WebhookServer: the requests received, with their answers
    handlers,         \* the coroutine handed to the loop for each request
    request,          \* the request line, header and body read by the last step
    level,            \* Logger: the level of the one Logger instance
    output,           \* Logger: the lines printed to stdout
    call              \* Logger: the method called by the last step, and its argument

router ==
    <<sessions, messages, active_sessions, tasks, n_updates, accepted, last, sent,
      update>>

ingress == <<requests, handlers, request>>

\* the process-wide logger
console == <<level, output, call>>

vars == <<router, ingress, console>>

\* no request line read
NoRequest == [method |-> "-", path |-> "-", token |-> "-", body |-> <<>>]

\* the webhook server has received nothing
IngressIdle == requests = <<>> /\ handlers = <<>> /\ request = NoRequest

\* Logger.DEBUG, INFO, WARNING, ERROR
DEBUG == 10
INFO == 20
WARNING == 30
ERROR == 40

NoLog == [method |-> "none", arg |-> "-"]

\* Logger.__new__ at the import of the module: level INFO, nothing printed
LoggerIdle == level = INFO /\ output = <<>> /\ call = NoLog

Range(s) == {s[i] : i \in DOMAIN s}

\* ------------------------------------------------------------ storage
OpenStatus == {"waiting", "active"}

\* select(Session).where(bot_id, chat_id, status in (waiting, active))
OpenByChat(b, c) ==
    {i \in DOMAIN sessions :
        /\ sessions[i].bot_id = b
        /\ sessions[i].chat_id = c
        /\ sessions[i].status \in OpenStatus}

\* select(Session).where(bot_id, manager_id, status == active)
ActiveByManager(b, m) ==
    {i \in DOMAIN sessions :
        /\ sessions[i].bot_id = b
        /\ sessions[i].manager_id = m
        /\ sessions[i].status = "active"}

\* select(Session).where(bot_id, status == waiting)
WaitingOf(b) ==
    {i \in DOMAIN sessions :
        /\ sessions[i].bot_id = b
        /\ sessions[i].status = "waiting"}

\* Result.scalar_one_or_none(): the row, none, or MultipleResultsFound
scalar_one_or_none(rows) ==
    IF Cardinality(rows) > 1 THEN [raised |-> TRUE, id |-> NoSession]
    ELSE IF rows = {} THEN [raised |-> FALSE, id |-> NoSession]
    ELSE [raised |-> FALSE, id |-> CHOOSE i \in rows : TRUE]

\* a lookup by chat that leaves out the waiting sessions
get_active_session_by_chat_id_active_only(b, c) ==
    scalar_one_or_none({i \in OpenByChat(b, c) : sessions[i].status = "active"})

get_active_session_by_chat_id(b, c) == scalar_one_or_none(OpenByChat(b, c))

get_active_session_by_manager_id(b, m) == scalar_one_or_none(ActiveByManager(b, m))

get_next_waiting_session(b) == scalar_one_or_none(WaitingOf(b))

\* get_free_managers without its bot_id filter
busy_managers_any_bot(tbl, b, ids) ==
    {tbl[i].manager_id : i \in {j \in DOMAIN tbl :
        /\ tbl[j].status = "active"
        /\ tbl[j].manager_id \in Range(ids)}} \ {NoManager}

\* get_free_managers: manager ids of the active rows of the bot among ids
busy_managers(tbl, b, ids) ==
    {tbl[i].manager_id : i \in {j \in DOMAIN tbl :
        /\ tbl[j].bot_id = b
        /\ tbl[j].status = "active"
        /\ tbl[j].manager_id \in Range(ids)}} \ {NoManager}

\* SessionService.get_free_managers on the table contents tbl
get_free_managers_of(tbl, b, ids) ==
    IF ids = <<>> THEN <<>>
    ELSE LET busy == busy_managers(tbl, b, ids)
             free(m) == m \notin busy
         IN SelectSeq(ids, free)

get_free_managers(b, ids) == get_free_managers_of(sessions, b, ids)

\* Session(bot_id, chat_id, messages_ai=[], messages_client=[], status="waiting")
NewSession(b, c, rank) ==
    [bot_id |-> b, chat_id |-> c, manager_id |-> NoManager, status |-> "waiting",
     created_at |-> rank, updated_at |-> 0,
     messages_client |-> <<>>, messages_ai |-> <<>>]

\* ---------------------------------------------------------------- tasks
\* "no value" for an optional text (None)
NoText == "-"

\* sender and db_text are the optional arguments of TelegramBot.send_message;
\* reply: handle_update has an on_message_callback that returns a response;
\* row_status, row_manager_id: the Session object a lookup handed to the handler
Idle ==
    [pc |-> "idle", bot_id |-> "-", user_id |-> "-", chat_id |-> "-",
     session_id |-> NoSession, text |-> NoText,
     sender |-> "bot", db_text |-> NoText,
     reply |-> FALSE, row_status |-> "-", row_manager_id |-> "-",
     client_msgs |-> <<>>, manager_msgs |-> <<>>]

\* TelegramClient.send_message(to, text): session_id is the id an accept keyboard
\* carries in its callback_data, NoSession when there is no accept keyboard
Msg(to, text, sid) ==
    [method |-> "sendMessage", to |-> to, text |-> text, session_id |-> sid]

\* TelegramClient.answer_callback_query(id of the callback of user to, text)
\* TelegramClient.delete_message(to, message_id)
Delete(to) ==
    [method |-> "deleteMessage", to |-> to, text |-> "-", session_id |-> NoSession]

Answer(to, text) ==
    [method |-> "answerCallbackQuery", to |-> to, text |-> text,
     session_id |-> NoSession]

NoCall ==
    [op |-> "none", bot_id |-> "-", chat_id |-> "-", user_id |-> "-",
     session_id |-> NoSession, result |-> FALSE]

\* the value a router operation hands back to the task that called it
Returned(op, tk, sid, res) ==
    [op |-> op, bot_id |-> tk.bot_id, chat_id |-> tk.chat_id, user_id |-> tk.user_id,
     session_id |-> sid, result |-> res]

\* no update is handed over in this step
NoUpdate ==
    [kind |-> "none", bot_id |-> "-", user_id |-> "-", text |-> NoText,
     session_id |-> NoSession, reply |-> FALSE]

\* update["message"] with its text, from user_id in the private chat of that
\* user; reply: on_message_callback is given and returns a response
Message(b, u, text, reply) ==
    [kind |-> "message", bot_id |-> b, user_id |-> u, text |-> text,
     session_id |-> NoSession, reply |-> reply]

\* update["callback_query"] from user_id: data is "accept_session_<sid>" or
\* "close_session"
CallbackQuery(b, u, data, sid) ==
    [kind |-> "callback_query", bot_id |-> b, user_id |-> u, text |-> data,
     session_id |-> sid, reply |-> FALSE]

Init ==
    /\ sessions = <<>>
    /\ messages = <<>>
    /\ active_sessions = [k \in CacheKeys |-> NoSession]
    /\ tasks = EmptyBag
    /\ n_updates = 0
    /\ accepted = [i \in 1..MaxUpdates |-> {}]
    /\ last = NoCall
    /\ update = NoUpdate
    /\ sent = <<>>
    /\ IngressIdle
    /\ LoggerIdle

\* the coroutines suspended at a storage await
Running == BagToSet(tasks)

\* run_coroutine_threadsafe(handler(update), loop): a coroutine starts as tk
Spawn(tk) == tasks' = tasks (+) SetToBag({tk})

\* the coroutine tk, suspended in tasks or started by this step, runs to its
\* next storage await, where it is nxt
Continue(tk, nxt) == tasks' = (tasks (-) SetToBag({tk})) (+) SetToBag({nxt})

\* the coroutine tk, suspended in tasks or started by this step, ends: it
\* returned, or an exception left handle_update
Finish(tk) == tasks' = tasks (-) SetToBag({tk})

\* add_message_to_session: one Message row, and updated_at of its session bumped
add_message_to_session(sid, text, message_type, sender, status, error_message) ==
    /\ messages' = Append(messages,
            [session_id |-> sid, text |-> text, message_type |-> message_type,
             sender |-> sender, status |-> status, error_message |-> error_message])
    /\ sessions' = IF sid \in DOMAIN sessions
                   THEN [sessions EXCEPT ![sid].updated_at = @ + 1]
                   ELSE sessions

\* _handle_client_update returned to handle_update, in the coroutine tk (suspended
\* in tasks or started by this step): with a response of on_message_callback,
\* send_message(chat_id, response) is called with no session_id and its lookup
\* is the next storage await; else handle_update returns
Return(tk) ==
    IF tk.reply
    THEN Continue(tk, [Idle EXCEPT !.pc = "reply_lookup", !.bot_id = tk.bot_id,
                                   !.user_id = tk.user_id, !.chat_id = tk.user_id,
                                   !.text = "reply"])
    ELSE Finish(tk)

\* a coroutine slot is free
FreeTask == BagCardinality(tasks) < Cardinality(Tasks)

\* ------------------------------------ TelegramBot.send_message(session_id given)
\* the handler calls send_message(chat_id, text, session_id): the provider send
\* sits in a try, and add_message_to_session is the next storage await
send_message(tk, text, sid) ==
    [tk EXCEPT !.pc = "send_message_record", !.session_id = sid, !.text = text]

\* how client.send_message ends inside the try of send_message: it returns, it
\* raises httpx.HTTPStatusError (raise_for_status), or it raises anything else
ProviderOutcomes == {"ok", "HTTPStatusError", "Exception"}

\* result["status"] that never leaves "failed"
send_message_status_stuck(outcome) == "failed"

\* result["status"]: "failed" until the provider call has returned
send_message_status(outcome) == IF outcome = "ok" THEN "success" ELSE "failed"

\* result["error"]: None, the status code and body of the response, or str(e)
send_message_error(outcome) ==
    IF outcome = "ok" THEN NoText
    ELSE IF outcome = "HTTPStatusError" THEN "HTTP error: 403 - Forbidden"
    ELSE "timed out"

\* the text send_message records: db_text or message
RecordedText(tk) == IF tk.db_text # NoText THEN tk.db_text ELSE tk.text

\* the provider send of send_message ended with outcome; every branch awaits
\* add_message_to_session(outgoing, sender, status, error) once and the result
\* is returned
send_message_record(tk, outcome) ==
    /\ tk.pc = "send_message_record"
    /\ sent' = <<Msg(tk.chat_id, tk.text, NoSession)>>
    /\ add_message_to_session(tk.session_id, RecordedText(tk), "outgoing", tk.sender,
                              send_message_status(outcome),
                              send_message_error(outcome))
    /\ Return(tk)
    /\ last' = Returned("send_message", tk, tk.session_id,
                        send_message_status(outcome) = "success")
    /\ UNCHANGED <<active_sessions, n_updates, accepted>>

\* --------------------------------------- TelegramBot._handle_client_start
\* after get_or_create_session returned sid: get_free_managers awaits storage
\* unless manager_ids is empty; then nobody is prompted and send_message is next
AfterGetOrCreate(tk, sid) ==
    IF tk.text # NoText THEN send_message(tk, tk.text, sid)
    ELSE IF manager_ids[tk.bot_id] = <<>> THEN send_message(tk, "wait_for_manager", sid)
    ELSE [tk EXCEPT !.pc = "free_select", !.session_id = sid]

\* the first step of the handler tk of a "/start": await
\* get_active_session_by_chat_id; an open session: send_message("already
\* waiting"); none: get_or_create_session is called and tests the cache
handle_client_start_lookup(tk) ==
    LET r == get_active_session_by_chat_id(tk.bot_id, tk.chat_id)
        cached == active_sessions[<<tk.bot_id, tk.chat_id>>]
    IN /\ tk.pc = "start_lookup"
       /\ IF r.raised
          THEN Finish(tk) /\ last' = NoCall
          ELSE IF r.id # NoSession
          THEN Continue(tk, send_message(tk, "already_open", r.id)) /\ last' = NoCall
          ELSE IF cached # NoSession
          THEN /\ Continue(tk, AfterGetOrCreate(tk, cached))
               /\ last' = Returned("get_or_create_session", tk, cached, FALSE)
          ELSE /\ Continue(tk, [tk EXCEPT !.pc = "get_or_create_select"])
               /\ last' = NoCall
       /\ sent' = <<>>
       /\ UNCHANGED <<sessions, messages, active_sessions, accepted>>

\* get_or_create_session: await execute(select open sessions of the pair)
get_or_create_session_select(tk) ==
    LET r == scalar_one_or_none(OpenByChat(tk.bot_id, tk.chat_id))
    IN /\ tk.pc = "get_or_create_select"
       /\ IF r.raised
          THEN Finish(tk) /\ last' = NoCall /\ UNCHANGED active_sessions
          ELSE IF r.id # NoSession
          THEN /\ active_sessions' =
                    [active_sessions EXCEPT ![<<tk.bot_id, tk.chat_id>>] = r.id]
               /\ Continue(tk, AfterGetOrCreate(tk, r.id))
               /\ last' = Returned("get_or_create_session", tk, r.id, FALSE)
          ELSE /\ Continue(tk, [tk EXCEPT !.pc = "get_or_create_commit"])
               /\ last' = NoCall
               /\ UNCHANGED active_sessions
       /\ sent' = <<>>
       /\ UNCHANGED <<sessions, messages, n_updates, accepted>>

\* get_or_create_session: db_session.add(new_session); await commit()
get_or_create_session_commit(tk) ==
    /\ tk.pc = "get_or_create_commit"
    /\ sessions' = Append(sessions,
                           NewSession(tk.bot_id, tk.chat_id, Len(sessions) + 1))
    /\ Continue(tk, [tk EXCEPT !.pc = "get_or_create_refresh",
                              !.session_id = Len(sessions) + 1])
    /\ last' = NoCall
    /\ sent' = <<>>
    /\ UNCHANGED <<messages, active_sessions, n_updates, accepted>>

\* get_or_create_session: await refresh(new_session); cache the id; return it
get_or_create_session_refresh(tk) ==
    /\ tk.pc = "get_or_create_refresh"
    /\ active_sessions' =
         [active_sessions EXCEPT ![<<tk.bot_id, tk.chat_id>>] = tk.session_id]
    /\ Continue(tk, AfterGetOrCreate(tk, tk.session_id))
    /\ last' = Returned("get_or_create_session", tk, tk.session_id, TRUE)
    /\ sent' = <<>>
    /\ UNCHANGED <<sessions, messages, n_updates, accepted>>

\* await get_free_managers; if any is free: random.choice, await
\* client.send_message(target_manager, accept keyboard), which raises on failure;
\* then send_message(chat_id, "wait for a manager", session_id)
handle_client_start_free(tk, prompt_ok) ==
    LET free_managers == get_free_managers(tk.bot_id, manager_ids[tk.bot_id])
    IN /\ tk.pc = "free_select"
       /\ IF free_managers # <<>>
          THEN \E target_manager \in Range(free_managers) :
                  /\ sent' = <<Msg(target_manager, "new_client", tk.session_id)>>
                  /\ IF prompt_ok
                     THEN Continue(tk, send_message(tk, "wait_for_manager",
                                                    tk.session_id))
                     ELSE Finish(tk)
          ELSE /\ sent' = <<>>
               /\ Continue(tk, send_message(tk, "wait_for_manager", tk.session_id))
       /\ last' = NoCall
       /\ UNCHANGED <<sessions, messages, active_sessions, n_updates, accepted>>

\* ------------------------------------- TelegramBot._handle_callback_query
\* accept_session without its status test
accept_session_check_any(row_found, row_status) == row_found

\* the test accept_session makes on the row it selected
accept_session_check(row_found, row_status) == row_found /\ row_status = "waiting"

\* the first step of the handler tk of an accept callback: accept_session awaits
\* execute(select by session_id) and tests the row; on False the handler awaits
\* answer_callback_query("could not accept") and returns
accept_session_select(tk) ==
    LET sid == tk.session_id
        found == sid \in DOMAIN sessions
    IN /\ tk.pc = "accept_select"
       /\ IF accept_session_check(found, IF found THEN sessions[sid].status ELSE "-")
          THEN /\ Continue(tk, [tk EXCEPT !.pc = "accept_commit"])
               /\ last' = NoCall
               /\ sent' = <<>>
          ELSE /\ Finish(tk)
               /\ last' = Returned("accept_session", tk, sid, FALSE)
               /\ sent' = <<Answer(tk.user_id, "accept_failed")>>
       /\ UNCHANGED <<sessions, messages, active_sessions, accepted>>

\* accept_session that forgets to bind the manager
accept_session_row_unbound(row, manager_id) ==
    [row EXCEPT !.status = "active", !.updated_at = @ + 1]

\* the row accept_session commits: status, manager_id and updated_at are written
accept_session_row(row, manager_id) ==
    [row EXCEPT !.status = "active", !.manager_id = manager_id,
                !.updated_at = @ + 1]

\* accept_session: await commit(); return True.  Then the handler awaits
\* answer_callback_query and client.send_message(manager_id, close keyboard),
\* each raising on failure; get_session_messages is the next storage await
accept_session_commit(tk, answer_ok, notify_ok) ==
    LET sid == tk.session_id
    IN /\ tk.pc = "accept_commit"
       /\ sessions' = [sessions EXCEPT ![sid] = accept_session_row(@, tk.user_id)]
       /\ accepted' = [accepted EXCEPT ![sid] = @ \cup {tk.user_id}]
       /\ IF answer_ok /\ notify_ok
          THEN Continue(tk, [tk EXCEPT !.pc = "accept_get_session"])
          ELSE Finish(tk)
       /\ last' = Returned("accept_session", tk, sid, TRUE)
       /\ sent' = <<Answer(tk.user_id, "session_accepted")>>
                  \o (IF answer_ok THEN <<Msg(tk.user_id, "you_accepted", NoSession)>>
                      ELSE <<>>)
       /\ UNCHANGED <<messages, active_sessions, n_updates>>

\* await get_session_messages(session_id); send_message(chat_id, greeting, session_id)
handle_callback_query_get_session(tk) ==
    LET sid == tk.session_id
    IN /\ tk.pc = "accept_get_session"
       /\ IF sid \in DOMAIN sessions
          THEN Continue(tk, send_message([tk EXCEPT !.chat_id = sessions[sid].chat_id],
                                        "greeting", sid))
          ELSE Finish(tk)
       /\ last' = NoCall
       /\ sent' = <<>>
       /\ UNCHANGED <<sessions, messages, active_sessions, n_updates, accepted>>

\* ------------------------------------ TelegramBot._close_manager_session
\* the first step of the handler tk of a close command, after the provider
\* calls before of its caller: await get_active_session_by_manager_id(bot_id,
\* user_id); none: await client.send_message(user_id, "no active sessions") and
\* return
close_manager_session_lookup(tk, before) ==
    LET r == get_active_session_by_manager_id(tk.bot_id, tk.user_id)
    IN /\ tk.pc = "close_lookup"
       /\ IF r.raised THEN Finish(tk) /\ sent' = before
          ELSE IF r.id = NoSession
          THEN /\ Finish(tk)
               /\ sent' = before \o <<Msg(tk.user_id, "no_active_sessions", NoSession)>>
          ELSE /\ Continue(tk, [tk EXCEPT !.pc = "close_select", !.session_id = r.id,
                                          !.chat_id = sessions[r.id].chat_id])
               /\ sent' = before
       /\ last' = Returned("get_active_session_by_manager_id", tk, r.id, ~r.raised)
       /\ UNCHANGED <<sessions, messages, active_sessions, accepted>>

\* ids of the Message rows of session sid that are (incoming = TRUE) or are not
\* (incoming = FALSE) of message_type "incoming", in insertion order
MessagesOf(sid, incoming) ==
    LET mine(i) == /\ messages[i].session_id = sid
                   /\ (messages[i].message_type = "incoming") = incoming
    IN SelectSeq([i \in 1..Len(messages) |-> i], mine)

\* close_session without its status test
close_session_check_any(row_found, row_status) == row_found

\* the test close_session makes on the row it selected
close_session_check(row_found, row_status) == row_found /\ row_status = "active"

\* after close_session returned: await client.send_message(user_id, "session
\* closed") and client.send_message(chat_id, "session ended"), each raising on
\* failure; get_next_waiting_session is the next storage await
AfterCloseSession(tk, manager_ok, client_ok) ==
    /\ sent' = <<Msg(tk.user_id, "session_closed", NoSession)>>
               \o (IF manager_ok THEN <<Msg(tk.chat_id, "session_ended", NoSession)>>
                   ELSE <<>>)
    /\ IF manager_ok /\ client_ok
       THEN Continue(tk, [tk EXCEPT !.pc = "next_waiting_select"])
       ELSE Finish(tk)

\* close_session: await execute(select with messages) and the test; an active
\* row: the transcripts are collected; else close_session returns False
close_session_select(tk, manager_ok, client_ok) ==
    LET sid == tk.session_id
        found == sid \in DOMAIN sessions
    IN /\ tk.pc = "close_select"
       /\ IF close_session_check(found, IF found THEN sessions[sid].status ELSE "-")
          THEN /\ Continue(tk, [tk EXCEPT !.pc = "close_commit",
                                         !.client_msgs = MessagesOf(sid, TRUE),
                                         !.manager_msgs = MessagesOf(sid, FALSE)])
               /\ last' = NoCall
               /\ sent' = <<>>
          ELSE /\ AfterCloseSession(tk, manager_ok, client_ok)
               /\ last' = Returned("close_session", tk, sid, FALSE)
       /\ UNCHANGED <<sessions, messages, active_sessions, n_updates, accepted>>

\* the row close_session commits: transcripts, status and updated_at are written
close_session_row(row, client_msgs, manager_msgs) ==
    [row EXCEPT !.messages_client = client_msgs, !.messages_ai = manager_msgs,
                !.status = "closed", !.updated_at = @ + 1]

\* the routing cache after close_session's "if cache_key in ...: del ..."
cache_after_close(cache, cache_key) == [cache EXCEPT ![cache_key] = NoSession]

\* close_session: await commit(); drop the cache key; return True
close_session_commit(tk, manager_ok, client_ok) ==
    LET sid == tk.session_id
        cache_key == <<sessions[sid].bot_id, sessions[sid].chat_id>>
    IN /\ tk.pc = "close_commit"
       /\ sessions' = [sessions EXCEPT
                          ![sid] = close_session_row(@, tk.client_msgs, tk.manager_msgs)]
       /\ active_sessions' = cache_after_close(active_sessions, cache_key)
       /\ AfterCloseSession(tk, manager_ok, client_ok)
       /\ last' = Returned("close_session", tk, sid, TRUE)
       /\ UNCHANGED <<messages, n_updates, accepted>>

\* await get_next_waiting_session(bot_id); a waiting session: await
\* client.send_message(user_id, "a client is queued", accept keyboard)
close_manager_session_next(tk) ==
    LET next_session == get_next_waiting_session(tk.bot_id)
    IN /\ tk.pc = "next_waiting_select"
       /\ Finish(tk)
       /\ sent' = IF next_session.raised \/ next_session.id = NoSession THEN <<>>
                  ELSE <<Msg(tk.user_id, "queued_client", next_session.id)>>
       /\ last' = NoCall
       /\ UNCHANGED <<sessions, messages, active_sessions, n_updates, accepted>>

\* ------------------------------------ TelegramBot.send_message(no session_id)
\* send_message(chat_id, response) of handle_update: await
\* get_active_session_by_chat_id; an open session: its id is used; none:
\* get_or_create_session is called and tests the cache
send_message_lookup(tk) ==
    LET r == get_active_session_by_chat_id(tk.bot_id, tk.chat_id)
        cached == active_sessions[<<tk.bot_id, tk.chat_id>>]
    IN /\ tk.pc = "reply_lookup"
       /\ IF r.raised
          THEN Finish(tk) /\ last' = NoCall
          ELSE IF r.id # NoSession
          THEN Continue(tk, send_message(tk, tk.text, r.id)) /\ last' = NoCall
          ELSE IF cached # NoSession
          THEN /\ Continue(tk, AfterGetOrCreate(tk, cached))
               /\ last' = Returned("get_or_create_session", tk, cached, FALSE)
          ELSE /\ Continue(tk, [tk EXCEPT !.pc = "get_or_create_select"])
               /\ last' = NoCall
       /\ sent' = <<>>
       /\ UNCHANGED <<sessions, messages, active_sessions, n_updates, accepted>>

\* --------------------------------------------- update["message"]["from"]
\* first_name and username of the senders ("" when Telegram has none)
user_info ==
    [u \in Managers \cup Chats |->
        IF u = "m1" THEN [first_name |-> "Mia", username |-> "mia"]
        ELSE IF u = "m2" THEN [first_name |-> "", username |-> ""]
        ELSE IF u = "c1" THEN [first_name |-> "Cy", username |-> "cy"]
        ELSE [first_name |-> "Di", username |-> ""]]

\* Python's "a or b" on strings
Or(a, b) == IF a # "" THEN a ELSE b

\* f"[{display_name}]: {message_text}"
formatted_message(display_name, message_text) ==
    "[" \o display_name \o "]: " \o message_text

\* _handle_client_update: sender_name and display_name
sender_name(u) == Or(user_info[u].username, Or(user_info[u].first_name, "user"))

client_display_name(u) ==
    IF user_info[u].username # "" THEN "@" \o user_info[u].username
    ELSE Or(user_info[u].first_name, "user")

\* _handle_manager_message: display_name and db_sender
manager_display_name(u) == Or(user_info[u].first_name, "Manager")

db_sender(u) ==
    IF user_info[u].username # "" THEN "bot-" \o user_info[u].username
    ELSE "bot-manager"

\* texts of a client that are not "/start"
ClientTexts == {"hi"}

\* texts of a manager that are not a close command
ManagerTexts == {"hi", "/start"}

\* -------------------------------------- TelegramBot._handle_client_update
\* the first step of the handler tk of a client text that is not "/start":
\* await get_active_session_by_chat_id; none: await client.send_message(chat_id,
\* "press /start"), which raises on failure, and return
handle_client_update_lookup(tk, notice_ok) ==
    LET r == get_active_session_by_chat_id(tk.bot_id, tk.chat_id)
    IN /\ tk.pc = "text_lookup"
       /\ IF r.raised THEN Finish(tk) /\ sent' = <<>>
          ELSE IF r.id = NoSession
          THEN /\ sent' = <<Msg(tk.chat_id, "press_start", NoSession)>>
               /\ IF notice_ok THEN Return(tk) ELSE Finish(tk)
          ELSE /\ Continue(tk, [tk EXCEPT !.pc = "text_record", !.session_id = r.id,
                                          !.row_status = sessions[r.id].status,
                                          !.row_manager_id = sessions[r.id].manager_id])
               /\ sent' = <<>>
       /\ last' = Returned("get_active_session_by_chat_id", tk, r.id, ~r.raised)
       /\ UNCHANGED <<sessions, messages, active_sessions, accepted>>

\* await add_message_to_session(incoming); then, by the status of the Session
\* object of the lookup, await client.send_message(manager_id, "[name]: text") or
\* client.send_message(chat_id, "the manager has not joined yet"), each raising
\* on failure
handle_client_update_record(tk, forward_ok) ==
    /\ tk.pc = "text_record"
    /\ add_message_to_session(tk.session_id, tk.text, "incoming",
                              sender_name(tk.user_id), "success", NoText)
    /\ sent' = IF tk.row_status = "active"
               THEN <<Msg(tk.row_manager_id,
                          formatted_message(client_display_name(tk.user_id), tk.text),
                          NoSession)>>
               ELSE <<Msg(tk.chat_id, "manager_not_connected", NoSession)>>
    /\ IF forward_ok THEN Return(tk) ELSE Finish(tk)
    /\ last' = NoCall
    /\ UNCHANGED <<active_sessions, n_updates, accepted>>

\* ------------------------------------- TelegramBot._handle_manager_message
\* the first step of the handler tk of a manager's text that is not a close
\* command: await get_active_session_by_manager_id; an active session:
\* send_message(chat_id of the session, "[name]: text", session_id, sender,
\* db_text); none: return
handle_manager_message_lookup(tk) ==
    LET r == get_active_session_by_manager_id(tk.bot_id, tk.user_id)
    IN /\ tk.pc = "manager_lookup"
       /\ IF r.raised \/ r.id = NoSession THEN Finish(tk)
          ELSE Continue(tk,
                 [send_message([tk EXCEPT !.chat_id = sessions[r.id].chat_id],
                               formatted_message(manager_display_name(tk.user_id),
                                                 tk.text),
                               r.id)
                    EXCEPT !.sender = db_sender(tk.user_id), !.db_text = tk.text])
       /\ sent' = <<>>
       /\ last' = Returned("get_active_session_by_manager_id", tk, r.id, ~r.raised)
       /\ UNCHANGED <<sessions, messages, active_sessions, accepted>>

\* ------------------------------------------------- TelegramBot.handle_update
\* message "/start" from a sender that is not a manager of the bot
handle_update_start(b, c, reply) ==
    /\ FreeTask
    /\ n_updates < MaxUpdates
    /\ c \notin Range(manager_ids[b])
    /\ n_updates' = n_updates + 1
    /\ update' = Message(b, c, "/start", reply)
    /\ handle_client_start_lookup([Idle EXCEPT !.pc = "start_lookup", !.bot_id = b,
                                               !.user_id = c, !.chat_id = c,
                                               !.reply = reply])

\* a test of the sender of a callback that lets everybody pass
is_manager_anybody(b, u) == TRUE

\* the test _handle_callback_query makes first: manager_id in self.manager_ids
is_manager(b, u) == u \in Range(manager_ids[b])

\* callback_query with data "accept_session_<sid>" from user u; a sender not in
\* manager_ids is answered "not a manager" and the handler returns
handle_update_accept(b, u, sid) ==
    /\ FreeTask
    /\ n_updates < MaxUpdates
    /\ n_updates' = n_updates + 1
    /\ update' = CallbackQuery(b, u, "accept_session", sid)
    /\ IF is_manager(b, u)
       THEN accept_session_select([Idle EXCEPT !.pc = "accept_select", !.bot_id = b,
                                              !.user_id = u, !.session_id = sid])
       ELSE /\ last' = NoCall
            /\ sent' = <<Answer(u, "not_a_manager")>>
            /\ UNCHANGED <<sessions, messages, active_sessions, tasks, accepted>>

\* message "/close" from a manager of the bot, or the text of the close button:
\* then delete_message(user_id, message_id) is awaited first, in a try
handle_update_close(b, m, button) ==
    /\ FreeTask
    /\ n_updates < MaxUpdates
    /\ m \in Range(manager_ids[b])
    /\ n_updates' = n_updates + 1
    /\ update' = Message(b, m, IF button THEN "close_button" ELSE "/close", FALSE)
    /\ close_manager_session_lookup([Idle EXCEPT !.pc = "close_lookup", !.bot_id = b,
                                                 !.user_id = m],
                                    IF button THEN <<Delete(m)>> ELSE <<>>)

\* callback_query with data "close_session" from user m; a sender not in
\* manager_ids is answered "not a manager" and the handler returns; else await
\* answer_callback_query(id), which raises on failure, then the close command
handle_update_close_callback(b, m, answer_ok) ==
    /\ FreeTask
    /\ n_updates < MaxUpdates
    /\ n_updates' = n_updates + 1
    /\ update' = CallbackQuery(b, m, "close_session", NoSession)
    /\ IF is_manager(b, m) /\ answer_ok
       THEN close_manager_session_lookup([Idle EXCEPT !.pc = "close_lookup",
                                                      !.bot_id = b, !.user_id = m],
                                         <<Answer(m, "-")>>)
       ELSE /\ last' = NoCall
            /\ sent' = <<Answer(m, IF is_manager(b, m) THEN "-" ELSE "not_a_manager")>>
            /\ UNCHANGED <<sessions, messages, active_sessions, tasks, accepted>>

\* message with a text that is not "/start" from a sender that is not a manager
handle_update_text(b, c, text, reply, notice_ok) ==
    /\ FreeTask
    /\ n_updates < MaxUpdates
    /\ c \notin Range(manager_ids[b])
    /\ n_updates' = n_updates + 1
    /\ update' = Message(b, c, text, reply)
    /\ handle_client_update_lookup([Idle EXCEPT !.pc = "text_lookup", !.bot_id = b,
                                                !.user_id = c, !.chat_id = c,
                                                !.text = text, !.reply = reply],
                                   notice_ok)

\* message with a text that is not a close command from a manager of the bot
handle_update_manager_text(b, m, text) ==
    /\ FreeTask
    /\ n_updates < MaxUpdates
    /\ m \in Range(manager_ids[b])
    /\ n_updates' = n_updates + 1
    /\ update' = Message(b, m, text, FALSE)
    /\ handle_manager_message_lookup([Idle EXCEPT !.pc = "manager_lookup",
                                                  !.bot_id = b, !.user_id = m,
                                                  !.text = text])

\* ------------------------------------------------------- specification
\* session ids a callback can name: every row, and one id with no row
CallbackIds == 1..(Len(sessions) + 1)

\* a command or a callback is handed to handle_update(update), which has no
\* on_message_callback
Arrive ==
    \/ \E b \in Bots, c \in Chats : handle_update_start(b, c, FALSE)
    \/ \E b \in Bots, u \in Managers \cup Chats, sid \in CallbackIds :
            handle_update_accept(b, u, sid)
    \/ \E b \in Bots, m \in Managers, button \in BOOLEAN :
            handle_update_close(b, m, button)
    \/ \E b \in Bots, m \in Managers \cup Chats, answer_ok \in BOOLEAN :
            handle_update_close_callback(b, m, answer_ok)

\* a suspended handler resumes at its storage await
Resume ==
    \/ \E tk \in Running : get_or_create_session_select(tk)
    \/ \E tk \in Running : get_or_create_session_commit(tk)
    \/ \E tk \in Running : get_or_create_session_refresh(tk)
    \/ \E tk \in Running, prompt_ok \in BOOLEAN :
            handle_client_start_free(tk, prompt_ok)
    \/ \E tk \in Running, outcome \in ProviderOutcomes :
            send_message_record(tk, outcome)
    \/ \E tk \in Running, answer_ok \in BOOLEAN, notify_ok \in BOOLEAN :
            accept_session_commit(tk, answer_ok, notify_ok)
    \/ \E tk \in Running : handle_callback_query_get_session(tk)
    \/ \E tk \in Running, manager_ok \in BOOLEAN, client_ok \in BOOLEAN :
            close_session_select(tk, manager_ok, client_ok)
    \/ \E tk \in Running, manager_ok \in BOOLEAN, client_ok \in BOOLEAN :
            close_session_commit(tk, manager_ok, client_ok)
    \/ \E tk \in Running : close_manager_session_next(tk)

\* a step either takes in an update or resumes a handler
Next == Arrive \/ (Resume /\ update' = NoUpdate)

Spec == Init /\ [][Next /\ UNCHANGED <<ingress, console>>]_vars

\* a text that is no command is handed to handle_update, or an update of a client
\* is handed to handle_update(update, on_message_callback)
ArriveText ==
    \/ \E b \in Bots, c \in Chats : handle_update_start(b, c, TRUE)
    \/ \E b \in Bots, c \in Chats, text \in ClientTexts, reply \in BOOLEAN,
          notice_ok \in BOOLEAN : handle_update_text(b, c, text, reply, notice_ok)
    \/ \E b \in Bots, m \in Managers, text \in ManagerTexts :
            handle_update_manager_text(b, m, text)

\* a suspended handler of these resumes at a storage await of its own
ResumeText ==
    \/ \E tk \in Running : send_message_lookup(tk)
    \/ \E tk \in Running, forward_ok \in BOOLEAN :
            handle_client_update_record(tk, forward_ok)

\* ------------------------------------------------------------ properties
TypeOK ==
    /\ \A i \in DOMAIN sessions :
          sessions[i].status \in {"waiting", "active", "closed"}
    /\ n_updates \in 0..MaxUpdates

SessionKeys == Bots \X Chats

HasStatus(sid, status) == sid \in DOMAIN sessions /\ sessions[sid].status = status

\* C1: at most one session with status waiting or active for each
\* (bot_id, chat_id), in every reachable state
C1_OneOpenSessionPerChat ==
    \A k \in SessionKeys : Cardinality(OpenByChat(k[1], k[2])) <= 1

\* C2: at most one active session bound to each (bot_id, manager_id), in every
\* reachable state
C2_OneActiveSessionPerManager ==
    \A b \in Bots, m \in Managers : Cardinality(ActiveByManager(b, m)) <= 1

\* C3: of the accept_session calls made on one waiting session by different
\* managers exactly one returns True, and the session is bound to that caller
C3_ExactlyOneAcceptWins ==
    \A i \in DOMAIN sessions :
        /\ Cardinality(accepted[i]) <= 1
        /\ accepted[i] # {} => sessions[i].manager_id \in accepted[i]

\* the status changes the lifecycle allows in one step
Forward(old, new) ==
    \/ old = new
    \/ old = "waiting" /\ new = "active"
    \/ old = "active" /\ new = "closed"

\* C4: a session's status only moves waiting -> active -> closed, a session
\* leaves waiting only by an accept_session that returns True, and no session
\* row is ever deleted
C4_StatusMonotonic ==
    [][/\ DOMAIN sessions \subseteq DOMAIN sessions'
       /\ \A i \in DOMAIN sessions :
            /\ Forward(sessions[i].status, sessions'[i].status)
            /\ (sessions[i].status = "waiting" /\ sessions'[i].status # "waiting")
                 => (last'.op = "accept_session" /\ last'.result
                     /\ last'.session_id = i)]_vars

\* C5: manager_id is set if and only if the status is active or closed
C5_ManagerSetIffAssigned ==
    \A i \in DOMAIN sessions :
        (sessions[i].manager_id # NoManager) <=> (sessions[i].status \in {"active", "closed"})

\* close_session has just closed a session, which keeps its manager, while
\* another session still waits unbound
C5_Witness ==
    /\ last.op = "close_session" /\ last.result
    /\ HasStatus(last.session_id, "closed")
    /\ sessions[last.session_id].manager_id = last.user_id
    /\ \E j \in DOMAIN sessions :
          sessions[j].status = "waiting" /\ sessions[j].manager_id = NoManager

\* the step is taken by coroutine tk
Stepped(tk) == CopiesIn(tk, tasks') < CopiesIn(tk, tasks)

\* C6: get_or_create_session returns the id of a session of its (bot_id, chat_id)
\* that is waiting or active when the call returns, and it inserts a session
\* (waiting, no manager) only when the pair has no open session
C6_ResolveOrOpenSession ==
    [][/\ last'.op = "get_or_create_session" =>
            /\ last'.session_id \in DOMAIN sessions'
            /\ sessions'[last'.session_id].bot_id = last'.bot_id
            /\ sessions'[last'.session_id].chat_id = last'.chat_id
            /\ sessions'[last'.session_id].status \in OpenStatus
       /\ Len(sessions') > Len(sessions) =>
            LET new == sessions'[Len(sessions')]
            IN /\ new.status = "waiting"
               /\ new.manager_id = NoManager
               /\ OpenByChat(new.bot_id, new.chat_id) = {}]_vars

\* C7: when close_session returned True for a session S the cache has no entry
\* for its key, S stays closed, and a later /start of the chat is not handed S
\* back: a get_or_create_session that did not insert never returns a closed id
C7_CloseInvalidatesCache ==
    [][/\ (last'.op = "close_session" /\ last'.result) =>
            active_sessions'[<<last'.bot_id, last'.chat_id>>] = NoSession
       /\ \A i \in DOMAIN sessions :
            sessions[i].status = "closed" => sessions'[i].status = "closed"
       /\ (last'.op = "get_or_create_session" /\ ~last'.result) =>
            /\ last'.session_id \in DOMAIN sessions'
            /\ sessions'[last'.session_id].status # "closed"]_vars

\* C8: accept_session on a session that is not waiting (active, closed or
\* missing) returns False and leaves sessions, messages and the cache unchanged
C8_AcceptNonWaitingIsNoOp ==
    [][\A tk \in Running :
        (tk.pc = "accept_select" /\ Stepped(tk)
         /\ ~HasStatus(tk.session_id, "waiting"))
        => /\ last' = Returned("accept_session", tk, tk.session_id, FALSE)
           /\ UNCHANGED <<sessions, messages, active_sessions, accepted>>]_vars

\* C9: close_session on a session that is not active returns False and leaves
\* sessions (status, transcripts), messages and the cache unchanged
C9_CloseNonActiveIsNoOp ==
    [][\A tk \in Running :
        (tk.pc = "close_select" /\ Stepped(tk)
         /\ ~HasStatus(tk.session_id, "active"))
        => /\ last' = Returned("close_session", tk, tk.session_id, FALSE)
           /\ UNCHANGED <<sessions, messages, active_sessions>>]_vars

\* accept_session returned False for a session another manager already holds
C8_Witness ==
    /\ last.op = "accept_session" /\ ~last.result
    /\ HasStatus(last.session_id, "active")
    /\ sessions[last.session_id].manager_id # last.user_id

\* close_session returned False for a waiting session whose key is cached
C9_Witness ==
    /\ last.op = "close_session" /\ ~last.result
    /\ HasStatus(last.session_id, "waiting")
    /\ active_sessions[<<sessions[last.session_id].bot_id,
                         sessions[last.session_id].chat_id>>] = last.session_id

\* ------------------------------------- get_free_managers on any table
\* rows the table may hold when get_free_managers is called
MaxRows == 3

FMBots == {"b1", "b2"}

\* candidate lists handed to get_free_managers
FMCandidates == {<<>>, <<"m1">>, <<"m2">>, <<"m1", "m2">>, <<"m2", "m1">>}

\* status and manager_id of a row as accept_session and close_session leave them
FMCells ==
    {<<"waiting", NoManager>>} \cup ({"active", "closed"} \X Managers)

FMRow(b, cell, rank) ==
    [NewSession(b, "c1", rank) EXCEPT !.status = cell[1], !.manager_id = cell[2]]

FMTables ==
    UNION {{[i \in 1..n |-> FMRow(q[i][1], q[i][2], i)] :
                q \in [1..n -> FMBots \X FMCells]} : n \in 0..MaxRows}

InitFM ==
    /\ sessions \in FMTables
    /\ messages = <<>>
    /\ active_sessions = [k \in CacheKeys |-> NoSession]
    /\ tasks = EmptyBag
    /\ n_updates = 0
    /\ accepted = [i \in 1..MaxUpdates |-> {}]
    /\ last = NoCall
    /\ update = NoUpdate
    /\ sent = <<>>
    /\ IngressIdle
    /\ LoggerIdle

\* a caller awaits get_free_managers(b, ids)
call_get_free_managers(b, ids) ==
    /\ last' = [op |-> "get_free_managers", bot_id |-> b, manager_ids |-> ids,
                result |-> get_free_managers(b, ids)]
    /\ UNCHANGED <<sessions, messages, active_sessions, tasks, n_updates, accepted,
                   sent>>

\* a caller awaits get_next_waiting_session(b)
call_get_next_waiting_session(b) ==
    /\ last' = [op |-> "get_next_waiting_session", bot_id |-> b,
                result |-> get_next_waiting_session(b)]
    /\ UNCHANGED <<sessions, messages, active_sessions, tasks, n_updates, accepted,
                   sent>>

NextFM ==
    \/ \E b \in FMBots, ids \in FMCandidates : call_get_free_managers(b, ids)
    \/ \E b \in FMBots : call_get_next_waiting_session(b)

SpecFM == InitFM /\ [][NextFM /\ UNCHANGED <<ingress, console, update>>]_vars

\* manager m has an active session of bot b
IsBusy(b, m) ==
    \E i \in DOMAIN sessions :
        /\ sessions[i].bot_id = b
        /\ sessions[i].status = "active"
        /\ sessions[i].manager_id = m

\* the candidates that are not busy, one by one in candidate order
RECURSIVE FreeInOrder(_, _)
FreeInOrder(b, ids) ==
    IF ids = <<>> THEN <<>>
    ELSE (IF IsBusy(b, Head(ids)) THEN <<>> ELSE <<Head(ids)>>)
         \o FreeInOrder(b, Tail(ids))

\* C10: get_free_managers returns exactly the candidates that are not the
\* manager of an active session of the bot, in candidate order; an empty
\* candidate list gives an empty list
C10_FreeManagers ==
    last.op = "get_free_managers" =>
        /\ last.result = FreeInOrder(last.bot_id, last.manager_ids)
        /\ last.manager_ids = <<>> => last.result = <<>>

\* a manager busy in another bot and bound to a closed session of this bot is
\* returned as free, while the other candidate is busy and left out
C10_Witness ==
    /\ last.op = "get_free_managers"
    /\ Len(last.manager_ids) = 2
    /\ Len(last.result) = 1
    /\ \E i, j \in DOMAIN sessions :
        /\ sessions[i].bot_id # last.bot_id
        /\ sessions[i].status = "active"
        /\ sessions[i].manager_id = last.result[1]
        /\ sessions[j].bot_id = last.bot_id
        /\ sessions[j].status = "closed"
        /\ sessions[j].manager_id = last.result[1]

\* the row of rows that was inserted first
Oldest(rows) ==
    CHOOSE i \in rows : \A j \in rows : sessions[i].created_at <= sessions[j].created_at

\* C11: get_next_waiting_session returns the waiting session of the bot with the
\* smallest created_at, whatever the number of waiting sessions, and none only
\* when the bot has no waiting session
C11_NextWaitingIsOldest ==
    last.op = "get_next_waiting_session" =>
        LET waiting == WaitingOf(last.bot_id)
        IN /\ ~last.result.raised
           /\ waiting = {} => last.result.id = NoSession
           /\ waiting # {} => last.result.id = Oldest(waiting)

\* ------------------------- accept_session and close_session on any session
\* accept_session and close_session calls made on one table
MaxCalls == 2

\* rows of the table the calls are made on
MaxSvcRows == 1

\* tables of bot b1 and chat c1, rows as accept_session and close_session leave them
SvcTables ==
    UNION {{[i \in 1..n |-> FMRow("b1", q[i], i)] : q \in [1..n -> FMCells]} :
              n \in 0..MaxSvcRows}

\* the routing cache either has no entry or holds the id get_or_create_session
\* cached last for the key
InitSvc ==
    /\ sessions \in SvcTables
    /\ messages = <<>>
    /\ active_sessions \in
          {[k \in CacheKeys |-> IF k = <<"b1", "c1">> THEN v ELSE NoSession] :
              v \in {NoSession, Len(sessions)}}
    /\ tasks = EmptyBag
    /\ n_updates = 0
    /\ accepted = [i \in 1..MaxUpdates |-> {}]
    /\ last = NoCall
    /\ update = NoUpdate
    /\ sent = <<>>
    /\ IngressIdle
    /\ LoggerIdle

\* a coroutine of manager m is about to await op(sid), op being accept_session
\* (pc accept_select) or close_session (pc close_select); sid may name no row
call_session_service(pc, m, sid) ==
    /\ FreeTask
    /\ n_updates < MaxCalls
    /\ n_updates' = n_updates + 1
    /\ Spawn([Idle EXCEPT !.pc = pc, !.bot_id = "b1", !.user_id = m,
                          !.session_id = sid])
    /\ last' = NoCall
    /\ sent' = <<>>
    /\ UNCHANGED <<sessions, messages, active_sessions, accepted>>

NextSvc ==
    \/ \E pc \in {"accept_select", "close_select"}, m \in Managers,
          sid \in CallbackIds : call_session_service(pc, m, sid)
    \/ \E tk \in Running : accept_session_select(tk) /\ UNCHANGED n_updates
    \/ \E tk \in Running, answer_ok \in BOOLEAN, notify_ok \in BOOLEAN :
            accept_session_commit(tk, answer_ok, notify_ok)
    \/ \E tk \in Running : handle_callback_query_get_session(tk)
    \/ \E tk \in Running, outcome \in ProviderOutcomes :
            send_message_record(tk, outcome)
    \/ \E tk \in Running, manager_ok \in BOOLEAN, client_ok \in BOOLEAN :
            close_session_select(tk, manager_ok, client_ok)
    \/ \E tk \in Running, manager_ok \in BOOLEAN, client_ok \in BOOLEAN :
            close_session_commit(tk, manager_ok, client_ok)
    \/ \E tk \in Running : close_manager_session_next(tk)

SpecSvc == InitSvc /\ [][NextSvc /\ UNCHANGED <<ingress, console, update>>]_vars

\* ------------------------------------------- updates handled on any table
\* tables of bot b1 in which every row is the session of another client
UpdRow(cell, rank) ==
    [NewSession("b1", ChatOf(rank), rank) EXCEPT !.status = cell[1],
                                                 !.manager_id = cell[2]]

UpdTables ==
    UNION {{[i \in 1..n |-> UpdRow(q[i], i)] : q \in [1..n -> FMCells]} :
              n \in 0..MaxClients}

\* the routing cache after a restart (no entry) or holding the open sessions
CacheOf(tbl, filled) ==
    [k \in CacheKeys |->
        IF filled /\ \E i \in DOMAIN tbl : /\ <<tbl[i].bot_id, tbl[i].chat_id>> = k
                                            /\ tbl[i].status \in OpenStatus
        THEN CHOOSE i \in DOMAIN tbl : /\ <<tbl[i].bot_id, tbl[i].chat_id>> = k
                                       /\ tbl[i].status \in OpenStatus
        ELSE NoSession]

InitUpd ==
    /\ sessions \in UpdTables
    /\ messages = <<>>
    /\ active_sessions \in {CacheOf(sessions, filled) : filled \in BOOLEAN}
    /\ tasks = EmptyBag
    /\ n_updates = 0
    /\ accepted = [i \in 1..(MaxClients + MaxArrivals) |-> {}]
    /\ last = NoCall
    /\ update = NoUpdate
    /\ sent = <<>>
    /\ IngressIdle
    /\ LoggerIdle

\* at most MaxArrivals updates are handed to handle_update
NextUpd == (n_updates < MaxArrivals /\ Arrive) \/ (Resume /\ update' = NoUpdate)

SpecUpd == InitUpd /\ [][NextUpd /\ UNCHANGED <<ingress, console>>]_vars

\* every kind of update, handled on any table
NextTxt ==
    \/ n_updates < MaxArrivals /\ (Arrive \/ ArriveText)
    \/ (Resume \/ ResumeText) /\ update' = NoUpdate

SpecTxt == InitUpd /\ [][NextTxt /\ UNCHANGED <<ingress, console>>]_vars

\* --------------------------------------------- properties of the handlers
\* the session service's free managers of the bot of handler tk, now
FreeNow(tk) == Range(get_free_managers(tk.bot_id, manager_ids[tk.bot_id]))

\* the handler tk of a "/start" prompts one manager of the free set, with the
\* accept keyboard of its session, and nobody else
PromptsOneFree(tk) ==
    \E m \in FreeNow(tk) : sent' = <<Msg(m, "new_client", tk.session_id)>>

\* C12: a "/start" of a client with no open session, with a manager free: the
\* session get_or_create_session hands to the handler is a waiting session of
\* the client (the one it inserted, or else a row that is waiting), and the only
\* provider call of the dispatch step is one accept prompt, to a manager of the
\* free set, carrying that session's id
C12_StartPromptsOneFreeManager ==
    [][/\ \A tk \in Running :
            (tk.pc = "free_select" /\ Stepped(tk) /\ FreeNow(tk) # {})
            => PromptsOneFree(tk)
       /\ (last'.op = "get_or_create_session" /\ ~last'.result)
            => /\ last'.session_id \in DOMAIN sessions'
               /\ sessions'[last'.session_id].chat_id = last'.chat_id
               /\ sessions'[last'.session_id].status = "waiting"]_vars

\* C13: a "/start" of a client with no open session, with no manager free: no
\* provider call goes to a manager, the session stays waiting, and the handler
\* goes on to send the client the notice that no manager is available, not
\* the notice to wait for a manager
C13_StartWithNoFreeManager ==
    [][\A tk \in Running :
        (tk.pc = "free_select" /\ Stepped(tk) /\ FreeNow(tk) = {})
        => /\ sent' = <<>>
           /\ HasStatus(tk.session_id, "waiting")'
           /\ send_message(tk, "no_manager_available", tk.session_id)
                  \in BagToSet(tasks')
           /\ send_message(tk, "wait_for_manager", tk.session_id)
                  \notin BagToSet(tasks')]_vars

\* the coroutines this step leaves suspended at pc
NewAt(pc) ==
    {t \in BagToSet(tasks') : t.pc = pc /\ CopiesIn(t, tasks') > CopiesIn(t, tasks)}

\* C14: an accept of M1 on a waiting session makes it active with manager_id M1
\* and the handler goes on to send the session's client the greeting; an accept
\* pressed by M2 once the session is M1's returns False, M2 is answered that the
\* accept failed, and nothing else happens: sessions, messages and the cache
\* are unchanged and the handler ends
C14_AcceptThenLateAccept ==
    [][/\ \A tk \in Running :
            (tk.pc = "accept_commit" /\ Stepped(tk))
            => /\ HasStatus(tk.session_id, "active")'
               /\ sessions'[tk.session_id].manager_id = tk.user_id
               /\ last' = Returned("accept_session", tk, tk.session_id, TRUE)
               /\ [tk EXCEPT !.pc = "accept_get_session"] \in BagToSet(tasks')
       /\ \A tk \in Running :
            (tk.pc = "accept_get_session" /\ Stepped(tk))
            => send_message([tk EXCEPT !.chat_id = sessions[tk.session_id].chat_id],
                            "greeting", tk.session_id) \in BagToSet(tasks')
       /\ \A t \in NewAt("accept_commit") : HasStatus(t.session_id, "waiting")
       /\ (last'.op = "accept_session" /\ ~last'.result)
            => /\ sent' = <<Answer(last'.user_id, "accept_failed")>>
               /\ tasks' \sqsubseteq tasks
               /\ UNCHANGED <<sessions, messages, active_sessions>>]_vars

\* C15: a manager's close of its active session S1 while other sessions of the
\* bot wait: close_session leaves S1 closed with the two transcripts it
\* collected, and the handler's queue step sends that manager one accept offer,
\* carrying the id of the oldest waiting session
C15_CloseOffersOldestWaiting ==
    [][/\ \A tk \in Running :
            (tk.pc = "close_commit" /\ Stepped(tk))
            => /\ HasStatus(tk.session_id, "closed")'
               /\ sessions'[tk.session_id].messages_client = tk.client_msgs
               /\ sessions'[tk.session_id].messages_ai = tk.manager_msgs
               /\ last' = Returned("close_session", tk, tk.session_id, TRUE)
       /\ \A tk \in Running :
            (tk.pc = "next_waiting_select" /\ Stepped(tk)
             /\ WaitingOf(tk.bot_id) # {})
            => sent' = <<Msg(tk.user_id, "queued_client",
                             Oldest(WaitingOf(tk.bot_id)))>>]_vars

\* this step takes in a close command of manager m of bot b (text, button or
\* callback)
CloseCommand(b, m) ==
    /\ update'.bot_id = b /\ update'.user_id = m
    /\ \/ update'.kind = "message" /\ update'.text \in {"/close", "close_button"}
       \/ update'.kind = "callback_query" /\ update'.text = "close_session"

NoActiveNotice(m) == Msg(m, "no_active_sessions", NoSession)

\* C16: a close command (text, close button or close callback) of a manager with
\* no active session: the manager is sent the 'no active sessions' notice, no
\* other message is sent (none to a client), the handler ends, and sessions,
\* messages and the cache are unchanged
C16_CloseWithNoActiveSession ==
    [][\A b \in Bots, m \in Managers :
        (CloseCommand(b, m) /\ ActiveByManager(b, m) = {})
        => /\ NoActiveNotice(m) \in Range(sent')
           /\ \A i \in DOMAIN sent' :
                 sent'[i].method = "sendMessage" => sent'[i] = NoActiveNotice(m)
           /\ tasks' = tasks
           /\ UNCHANGED <<sessions, messages, active_sessions>>]_vars

\* sendMessage calls made by this step
SendsOfStep == {i \in DOMAIN sent' : sent'[i].method = "sendMessage"}

\* Message rows with message_type outgoing added by this step
OutgoingRowsOfStep ==
    {i \in DOMAIN messages' \ DOMAIN messages : messages'[i].message_type = "outgoing"}

\* C20: in every step of a handler that works on a session, the sendMessage
\* calls attempted (to the client or to a manager, delivered or not) and the
\* outgoing Message rows added are equal in number, and each row is recorded
\* for that session; so the two totals are equal in every state
C20_OneRowPerSend ==
    [][\A tk \in Running :
        (Stepped(tk) /\ tk.session_id # NoSession)
        => /\ Cardinality(SendsOfStep) = Cardinality(OutgoingRowsOfStep)
           /\ \A i \in OutgoingRowsOfStep : messages'[i].session_id = tk.session_id]_vars

\* ------------------------------------------------ WebhookServer (ingress)
\* requests the server receives
MaxRequests == 2

\* WebhookServer.routes after add_route: path -> Route.secret_token, "" for a
\* route registered without a secret
routes == [p \in {"/b1", "/b2"} |-> IF p = "/b1" THEN "s3cret" ELSE ""]

\* urlparse(self.path).path of a request: a registered path or another one
Paths == DOMAIN routes \cup {"/other"}

\* headers.get("X-Telegram-Bot-Api-Secret-Token"): None when the header is absent
NoHeader == "None"

Tokens == {NoHeader, "s3cret", "wrong"}

\* raw_body, as bytes: empty, "{}", "{", "1", and two bodies with a byte (0xFF)
\* that is no part of any UTF-8 text
Bodies == {<<>>, <<123, 125>>, <<123>>, <<49>>, <<255>>, <<123, 255>>}

\* raw_body.decode("utf-8"): raises UnicodeDecodeError on a byte 0xF8..0xFF
decode_utf8(raw_body) ==
    [raised |-> \E i \in DOMAIN raw_body : raw_body[i] >= 248, text |-> raw_body]

\* json.loads(text) for a text over the characters "{", "}" and "1": an empty
\* object or a number parses, anything else raises json.JSONDecodeError
json_loads(text) ==
    IF text = <<123, 125>> THEN [raised |-> FALSE, update |-> "object"]
    ELSE IF text # <<>> /\ \A i \in DOMAIN text : text[i] = 49
    THEN [raised |-> FALSE, update |-> "number"]
    ELSE [raised |-> TRUE, update |-> "-"]

\* the handler thread ended with an exception: the connection is closed with
\* no status line
NoResponse == 0

\* do_POST up to its answer: 404, 401, 400, an exception that is not caught
\* (NoResponse), or 200 for a request that reaches run_coroutine_threadsafe
do_POST_status(path, token, raw_body) ==
    IF path \notin DOMAIN routes THEN 404
    ELSE IF routes[path] # "" /\ token # routes[path] THEN 401
    ELSE IF decode_utf8(raw_body).raised THEN NoResponse
    ELSE IF json_loads(decode_utf8(raw_body).text).raised THEN 400
    ELSE 200

\* do_GET: 200 for a registered path, else 404
do_GET_status(path) == IF path \in DOMAIN routes THEN 200 ELSE 404

\* run_coroutine_threadsafe placed before the try that parses the body
hands_off_before_parse(status) == status \notin {404, 401}

\* run_coroutine_threadsafe(route.handler(update), loop) is reached by the
\* requests that passed every test
hands_off(status) == status = 200

\* nothing received, and the router behind the handlers untouched
InitWH == Init

\* a POST arrives; its thread runs do_POST up to the hand-off, or to the answer
\* of a rejected request
do_POST(path, token, raw_body) ==
    LET status == do_POST_status(path, token, raw_body)
    IN /\ Len(requests) < MaxRequests
       /\ requests' = Append(requests,
              [method |-> "POST",
               pc |-> IF status = 200 THEN "ack" ELSE "done",
               status |-> IF status = 200 THEN NoResponse ELSE status])
       /\ handlers' = Append(handlers,
              IF hands_off(status) THEN "scheduled" ELSE "none")
       /\ request' = [method |-> "POST", path |-> path, token |-> token,
                      body |-> raw_body]
       /\ UNCHANGED <<router, console>>

\* send_response(200) with the future of run_coroutine_threadsafe left
\* unawaited until the handler is done
do_POST_ack_after_result(i) ==
    /\ i \in DOMAIN requests
    /\ requests[i].pc = "ack"
    /\ handlers[i] = "finished"
    /\ requests' = [requests EXCEPT ![i].pc = "done", ![i].status = 200]
    /\ request' = NoRequest
    /\ UNCHANGED <<handlers, router, console>>

\* the thread of request i goes on after run_coroutine_threadsafe returned its
\* future, which it drops: send_response(200); end_headers()
do_POST_ack(i) ==
    /\ i \in DOMAIN requests
    /\ requests[i].pc = "ack"
    /\ requests' = [requests EXCEPT ![i].pc = "done", ![i].status = 200]
    /\ request' = NoRequest
    /\ UNCHANGED <<handlers, router, console>>

\* a GET arrives and is answered
do_GET(path, token, raw_body) ==
    /\ Len(requests) < MaxRequests
    /\ requests' = Append(requests,
           [method |-> "GET", pc |-> "done", status |-> do_GET_status(path)])
    /\ handlers' = Append(handlers, "none")
    /\ request' = [method |-> "GET", path |-> path, token |-> token,
                   body |-> raw_body]
    /\ UNCHANGED <<router, console>>

\* the event loop starts the coroutine of request i
handler_start(i) ==
    /\ i \in DOMAIN handlers
    /\ handlers[i] = "scheduled"
    /\ handlers' = [handlers EXCEPT ![i] = "running"]
    /\ request' = NoRequest
    /\ UNCHANGED <<requests, router, console>>

\* the coroutine of request i returns, or its exception is kept in the future
handler_end(i) ==
    /\ i \in DOMAIN handlers
    /\ handlers[i] = "running"
    /\ handlers' = [handlers EXCEPT ![i] = "finished"]
    /\ request' = NoRequest
    /\ UNCHANGED <<requests, router, console>>

NextWH ==
    \/ \E path \in Paths, token \in Tokens, raw_body \in Bodies :
            do_POST(path, token, raw_body)
    \/ \E i \in 1..MaxRequests : do_POST_ack(i)
    \/ \E path \in Paths, token \in Tokens, raw_body \in Bodies :
            do_GET(path, token, raw_body)
    \/ \E i \in 1..MaxRequests : handler_start(i)
    \/ \E i \in 1..MaxRequests : handler_end(i)

SpecWH == InitWH /\ [][NextWH]_vars

\* every request thread of ThreadingHTTPServer keeps being scheduled; nothing
\* is assumed of the event loop and its coroutines
SpecWHLive == SpecWH /\ \A i \in 1..MaxRequests : WF_vars(do_POST_ack(i))

\* a body json.loads can be given and parses
Parseable(raw_body) ==
    /\ ~decode_utf8(raw_body).raised
    /\ ~json_loads(decode_utf8(raw_body).text).raised

\* the answer the tests give when made in the order route, secret, body
AnswerInOrder(rq) ==
    IF rq.method = "GET" THEN (IF rq.path \in DOMAIN routes THEN 200 ELSE 404)
    ELSE IF rq.path \notin DOMAIN routes THEN 404
    ELSE IF routes[rq.path] # "" /\ rq.token # routes[rq.path] THEN 401
    ELSE IF ~Parseable(rq.body) THEN 400
    ELSE 200

\* C17: a POST is answered 404 when no route matches its path, else 401 when
\* the route has a secret and the header is absent or differs, else 400 when
\* its body does not parse as JSON, whatever the body, else 200; a GET is
\* answered 200 on a registered path and 404 otherwise
C17_AnswersInOrder ==
    [][/\ request' # NoRequest =>
            LET rq == requests'[Len(requests')]
            IN IF rq.pc = "ack" THEN AnswerInOrder(request') = 200
               ELSE rq.status = AnswerInOrder(request')
       /\ \A i \in DOMAIN requests :
            (requests[i].pc = "ack" /\ requests'[i].pc = "done")
            => requests'[i].status = 200]_vars

\* C18: a coroutine is handed to the loop only for a POST that is answered 200
\* (already, or by the next step of its thread); a GET and a request answered
\* 404, 401 or 400 has none
C18_HandlerOnlyForAcceptedPost ==
    \A i \in DOMAIN requests :
        /\ handlers[i] # "none"
            => /\ requests[i].method = "POST"
               /\ requests[i].pc = "ack" \/ requests[i].status = 200
        /\ (requests[i].method = "GET" \/ requests[i].status \in {404, 401, 400})
            => handlers[i] = "none"

\* a POST answered 200 with its coroutine on the loop, next to a rejected POST
\* and so without a coroutine
C18_Witness ==
    \E i, j \in DOMAIN requests :
        /\ requests[i].method = "POST" /\ requests[i].status = 200
        /\ handlers[i] # "none"
        /\ requests[j].method = "POST" /\ requests[j].status \in {404, 401, 400}
        /\ handlers[j] = "none"

\* C19: the thread of a handed-off request answers 200 whatever its coroutine,
\* and the coroutines of the other requests, do: with the request threads
\* scheduled and no progress assumed of the loop, every handed-off request is
\* answered 200
C19_AckNeverWaits ==
    \A i \in 1..MaxRequests :
        (i \in DOMAIN requests /\ requests[i].pc = "ack")
            ~> (i \in DOMAIN requests /\ requests[i].status = 200)

\* a request is answered 200 while its coroutine has not started and the
\* coroutine of an earlier request is still running
C19_Witness ==
    \E i, j \in DOMAIN requests :
        /\ i # j
        /\ requests[i].status = 200 /\ handlers[i] = "scheduled"
        /\ handlers[j] = "running"

\* ---------------------------------------- more properties of the handlers
\* the recipients the handler tk has called sendMessage for before the step it
\* is suspended at: its pc is reached only past those calls
SentBefore(tk) ==
    IF tk.pc = "next_waiting_select" THEN {tk.user_id, tk.chat_id}
    ELSE IF tk.pc = "accept_get_session" THEN {tk.user_id}
    ELSE IF tk.pc = "send_message_record" /\ tk.text = "greeting" THEN {tk.user_id}
    ELSE {}

\* C21: while one update is handled no recipient is sent two messages by
\* sendMessage: the sendMessage calls of a step go to different recipients,
\* and none goes to a recipient the same handler has sent to before
C21_OneSendPerRecipient ==
    [][/\ \A i, j \in SendsOfStep : sent'[i].to = sent'[j].to => i = j
       /\ \A tk \in Running :
            Stepped(tk) => \A i \in SendsOfStep : sent'[i].to \notin SentBefore(tk)]_vars

\* SessionService.get_session_messages(session_id): None (here <<>>) when the
\* session has no row, else the ids of its Message rows ORDER BY created_at
get_session_messages(sid) ==
    IF sid \notin DOMAIN sessions THEN <<>>
    ELSE SelectSeq([i \in 1..Len(messages) |-> i],
                   LAMBDA i : messages[i].session_id = sid)

\* the rows of get_session_messages(sid) that are (incoming = TRUE) or are not
\* of message_type "incoming"
Listed(sid, incoming) ==
    SelectSeq(get_session_messages(sid),
              LAMBDA i : (messages[i].message_type = "incoming") = incoming)

\* C22: when close_session has closed a session, its client transcript has as
\* many entries as the session has incoming Message rows and its manager
\* transcript as many as it has outgoing rows; no step removes or rewrites a
\* Message row, so the rows stay listed in insertion order
C22_TranscriptsCountRows ==
    [][/\ \A tk \in Running :
            (tk.pc = "close_commit" /\ Stepped(tk))
            => /\ Len(sessions'[tk.session_id].messages_client)
                    = Len(Listed(tk.session_id, TRUE))'
               /\ Len(sessions'[tk.session_id].messages_ai)
                    = Len(Listed(tk.session_id, FALSE))'
       /\ SubSeq(messages', 1, Len(messages)) = messages]_vars

\* the handler tk, which took this step, goes on: this step leaves it suspended
\* at pc
GoesOn(tk, pc) == [tk EXCEPT !.pc = pc] \in NewAt(pc)

\* C23: a provider call that fails never ends the handling of the update: after
\* accept_session committed the handler goes on to the greeting, after
\* close_session returned it goes on to the queue step (and the session is
\* closed whether or not the confirmations were delivered), and after the
\* accept prompt of a "/start" it goes on to the notice to the client
C23_SendFailureNeverAborts ==
    [][\A tk \in Running :
        Stepped(tk) =>
          /\ tk.pc = "accept_commit" => GoesOn(tk, "accept_get_session")
          /\ tk.pc = "close_commit" =>
                /\ HasStatus(tk.session_id, "closed")'
                /\ GoesOn(tk, "next_waiting_select")
          /\ tk.pc = "free_select" =>
                send_message(tk, "wait_for_manager", tk.session_id)
                    \in NewAt("send_message_record")]_vars

\* C24: TelegramBot.send_message returns its result whatever the provider call
\* did (ok, HTTP error status, any other exception): the result says success
\* exactly when the provider call returned, and the call records exactly one
\* Message row, outgoing, of the session, with status success and no error
\* when the provider call returned, and with status failed and the error
\* detail for both kinds of failure
C24_SendMessageRecordsOutcome ==
    [][\A tk \in Running, outcome \in ProviderOutcomes :
        send_message_record(tk, outcome)
        => /\ last'.op = "send_message"
           /\ last'.result = (outcome = "ok")
           /\ Len(messages') = Len(messages) + 1
           /\ SubSeq(messages', 1, Len(messages)) = messages
           /\ LET row == messages'[Len(messages')]
              IN /\ row.message_type = "outgoing"
                 /\ row.session_id = tk.session_id
                 /\ row.status = (IF outcome = "ok" THEN "success" ELSE "failed")
                 /\ (row.error_message = NoText) = (outcome = "ok")]_vars

\* send_message has returned failed and recorded the HTTP error of the provider
C24_Witness ==
    /\ last.op = "send_message" /\ ~last.result
    /\ messages # <<>>
    /\ messages[Len(messages)].status = "failed"
    /\ messages[Len(messages)].message_type = "outgoing"
    /\ messages[Len(messages)].error_message = send_message_error("HTTPStatusError")

\* ------------------------------------------------------------- Logger
\* lines printed in one behaviour of SpecLog
MaxLogs == 3

\* names handed to set_level
LevelNames == {"DEV", "PROD", "dev", "DEBUG", "INFO", "WARNING", "ERROR", "verbose"}

\* str.upper() on the names above
upper(level_name) == IF level_name = "dev" THEN "DEV" ELSE level_name

\* the dict levels of set_level
levels == [n \in {"DEBUG", "INFO", "WARNING", "ERROR"} |->
              IF n = "DEBUG" THEN DEBUG ELSE IF n = "INFO" THEN INFO
              ELSE IF n = "WARNING" THEN WARNING ELSE ERROR]

\* Logger.set_level(level_name)
set_level(level_name) ==
    LET name == upper(level_name)
    IN /\ level' = IF name = "DEV" THEN DEBUG
                   ELSE IF name = "PROD" THEN INFO
                   ELSE IF name \in DOMAIN levels THEN levels[name] ELSE INFO
       /\ call' = [method |-> "set_level", arg |-> level_name]
       /\ UNCHANGED <<output, router, ingress>>

\* the methods that print, and the severity each compares the level with
LogMethods == {"debug", "info", "warning", "error"}

Severity(method) ==
    IF method = "debug" THEN DEBUG ELSE IF method = "info" THEN INFO
    ELSE IF method = "warning" THEN WARNING ELSE ERROR

\* a test "if self.level < self.X" in place of "<="
emits_above(current, severity) == current < severity

\* the test of debug, info, warning and error: "if self.level <= self.X"
emits(current, severity) == current <= severity

\* Logger.debug / info / warning / error (msg)
log(method, msg) ==
    /\ Len(output) < MaxLogs
    /\ output' = IF emits(level, Severity(method))
                 THEN Append(output, [severity |-> Severity(method), msg |-> msg])
                 ELSE output
    /\ call' = [method |-> method, arg |-> msg]
    /\ UNCHANGED <<level, router, ingress>>

InitLog == Init

NextLog ==
    \/ \E level_name \in LevelNames : set_level(level_name)
    \/ \E method \in LogMethods : log(method, "msg")

SpecLog == InitLog /\ [][NextLog]_vars

\* C25: the level is one value for the whole process: after set_level("PROD")
\* debug is suppressed and info printed, after set_level("DEV") debug is printed,
\* a name the logger does not know sets INFO; and a call of debug, info, warning
\* or error prints its message exactly when its severity is at or above the
\* level, and leaves the level alone
C25_PrintedIffAtOrAboveLevel ==
    [][/\ call'.method = "set_level" =>
            /\ call'.arg = "PROD" => (level' > DEBUG /\ level' <= INFO)
            /\ call'.arg = "DEV" => level' <= DEBUG
            /\ upper(call'.arg) \notin DOMAIN levels \cup {"DEV", "PROD"}
                  => level' = INFO
            /\ output' = output
       /\ call'.method \in LogMethods =>
            /\ level' = level
            /\ IF Severity(call'.method) >= level
               THEN output' = Append(output, [severity |-> Severity(call'.method),
                                              msg |-> call'.arg])
               ELSE output' = output]_vars

\* after set_level("PROD") a debug was suppressed, and after a later
\* set_level("DEV") a debug has been printed
C25_Witness ==
    /\ level = DEBUG
    /\ call.method = "debug"
    /\ Len(output) = 2
    /\ output[1].severity = INFO
    /\ output[2].severity = DEBUG

\* the coroutines this step starts or moves on
NewTasks == {t \in BagToSet(tasks') : CopiesIn(t, tasks') > CopiesIn(t, tasks)}

\* no session is added and every session keeps its status and its manager
SameSessions ==
    /\ Len(sessions') = Len(sessions)
    /\ \A i \in DOMAIN sessions :
          /\ sessions'[i].status = sessions[i].status
          /\ sessions'[i].manager_id = sessions[i].manager_id

\* C26: a "/start" of a client that has an open session (waiting or active):
\* the step that takes it in changes no table and calls no provider, and the
\* handler goes on to nothing but the "already open" notice to that client for
\* that session; the step of the notice sends it to the client and to nobody
\* else, records it, and adds no session and changes no status and no manager;
\* so any number of such "/start" leaves the sessions and statuses as they were
C26_StartWithOpenSessionIsIdempotent ==
    [][/\ \A b \in Bots, c \in Chats :
            (/\ update'.kind = "message" /\ update'.text = "/start"
             /\ update'.bot_id = b /\ update'.user_id = c
             /\ OpenByChat(b, c) # {})
            => /\ UNCHANGED <<sessions, messages, active_sessions>>
               /\ sent' = <<>>
               /\ \A t \in NewTasks :
                     /\ t.pc = "send_message_record"
                     /\ t.text = "already_open"
                     /\ t.chat_id = c
                     /\ t.session_id \in OpenByChat(b, c)
       /\ \A tk \in Running :
            (Stepped(tk) /\ tk.pc = "send_message_record" /\ tk.text = "already_open")
            => /\ SameSessions
               /\ active_sessions' = active_sessions
               /\ sent' = <<Msg(tk.user_id, "already_open", NoSession)>>
               /\ Len(messages') = Len(messages) + 1
               /\ NewTasks = {}]_vars

\* the client of a waiting session has sent "/start" and has been told that its
\* session is open already
C26_Witness ==
    /\ last.op = "send_message"
    /\ messages # <<>>
    /\ messages[Len(messages)].text = "already_open"
    /\ last.session_id \in DOMAIN sessions
    /\ sessions[last.session_id].status = "waiting"
    /\ sessions[last.session_id].chat_id = last.user_id

\* this step takes in a text of client c of bot b that is not "/start"
ClientText(b, c) ==
    /\ update'.kind = "message" /\ update'.text \in ClientTexts
    /\ update'.bot_id = b /\ update'.user_id = c

\* this step calls the provider for no manager
NoManagerContacted == \A i \in DOMAIN sent' : sent'[i].to \notin Managers

\* C27: a text that is not "/start" from a client whose chat has no open
\* session: the step that takes it in sends the client the notice to press
\* /start and nothing else, and neither that step nor a step of the reply of an
\* on_message_callback that follows for the chat, still without an open
\* session, adds a session, a Message row or a cache entry, or calls the
\* provider for a manager
C27_TextWithNoSessionOnlyInstructs ==
    [][/\ \A b \in Bots, c \in Chats :
            (ClientText(b, c) /\ OpenByChat(b, c) = {})
            => /\ UNCHANGED <<sessions, messages, active_sessions>>
               /\ sent' = <<Msg(c, "press_start", NoSession)>>
       /\ \A tk \in Running :
            (Stepped(tk) /\ tk.text = "reply" /\ OpenByChat(tk.bot_id, tk.chat_id) = {})
            => /\ UNCHANGED <<sessions, messages, active_sessions>>
               /\ NoManagerContacted]_vars

\* this step adds one Message row, of session sid, with this message_type and text
OneRow(sid, message_type, text) ==
    /\ Len(messages') = Len(messages) + 1
    /\ SubSeq(messages', 1, Len(messages)) = messages
    /\ messages'[Len(messages')].session_id = sid
    /\ messages'[Len(messages')].message_type = message_type
    /\ messages'[Len(messages')].text = text

\* C28: a text that is not "/start" from a client whose chat has an open
\* session: the handler records it as one incoming Message row of that session,
\* with the text as sent; in that step, when the session is active the one
\* provider call is a sendMessage to the manager of the session whose text is
\* the client's text, and when it is waiting the one provider call is the
\* notice to wait, to the client, and no manager is called
C28_ClientTextRecordedAndForwarded ==
    [][/\ \A b \in Bots, c \in Chats :
            (ClientText(b, c) /\ OpenByChat(b, c) # {})
            => /\ UNCHANGED <<sessions, messages, active_sessions>>
               /\ sent' = <<>>
               /\ \A t \in NewTasks :
                     t.pc = "text_record" /\ t.session_id \in OpenByChat(b, c)
       /\ \A tk \in Running :
            (Stepped(tk) /\ tk.pc = "text_record")
            => /\ OneRow(tk.session_id, "incoming", tk.text)
               /\ HasStatus(tk.session_id, "active")
                    => sent' = <<Msg(sessions[tk.session_id].manager_id, tk.text,
                                     NoSession)>>
               /\ HasStatus(tk.session_id, "waiting")
                    => sent' = <<Msg(tk.chat_id, "manager_not_connected", NoSession)>>]_vars

\* this step takes in a text of manager m of bot b that is not a close command
ManagerText(b, m) ==
    /\ update'.kind = "message" /\ update'.text \in ManagerTexts
    /\ update'.bot_id = b /\ update'.user_id = m

\* C29: a text that is no close command from a manager with an active session:
\* the handler goes on to send_message for that session, whose step sends the
\* client chat of the session, and nobody else, a sendMessage whose text is the
\* text the manager sent, and records one outgoing Message row of the session
\* with that text and with the manager's username (plain or tagged "bot-") as
\* sender, not "bot"; from a manager with no active session, whatever the text
\* ("/start" too): no provider call, no change of sessions, messages and cache,
\* and the handler ends
C29_ManagerTextForwarded ==
    [][/\ \A b \in Bots, m \in Managers :
            ManagerText(b, m) =>
              /\ UNCHANGED <<sessions, messages, active_sessions>>
              /\ sent' = <<>>
              /\ ActiveByManager(b, m) = {} => NewTasks = {}
              /\ \A t \in NewTasks :
                    /\ t.pc = "send_message_record"
                    /\ t.session_id \in ActiveByManager(b, m)
                    /\ t.chat_id = sessions[t.session_id].chat_id
                    /\ t.db_text = update'.text
       /\ \A tk \in Running :
            (Stepped(tk) /\ tk.pc = "send_message_record" /\ tk.db_text # NoText)
            => /\ sent' = <<Msg(tk.chat_id, tk.db_text, NoSession)>>
               /\ OneRow(tk.session_id, "outgoing", tk.db_text)
               /\ messages'[Len(messages')].sender # "bot"
               /\ messages'[Len(messages')].sender
                    \in {user_info[tk.user_id].username,
                         "bot-" \o user_info[tk.user_id].username}]_vars

\* C30: a callback query, accept or close, of a sender that is not in
\* manager_ids of the bot: the one provider call is the answer "not a manager"
\* to that sender, no session, Message row or cache entry changes, and no
\* handler is left to run, so nothing is sent to a client and nothing changes
\* later on its account
C30_CallbackOfNonManager ==
    [][(update'.kind = "callback_query"
        /\ update'.user_id \notin Range(manager_ids[update'.bot_id]))
       => /\ UNCHANGED <<sessions, messages, active_sessions, tasks>>
          /\ sent' = <<Answer(update'.user_id, "not_a_manager")>>]_vars

\* a client has pressed accept for a waiting session and was turned away
C30_Witness ==
    /\ update.kind = "callback_query" /\ update.text = "accept_session"
    /\ update.user_id \in Chats
    /\ update.session_id \in DOMAIN sessions
    /\ sessions[update.session_id].status = "waiting"
    /\ sent = <<Answer(update.user_id, "not_a_manager")>>

\* ------------------------------------------------------------ who closes
\* C31: a session becomes closed only by a close action of the manager it is
\* bound to: the step that writes status closed is the commit of close_session
\* in the handler of a close action, and the user of that handler is the
\* manager_id the session has when the commit is made
C31_ClosedOnlyByItsManager ==
    [][\A i \in DOMAIN sessions :
        sessions[i].status # "closed" /\ sessions'[i].status = "closed"
        => /\ last'.op = "close_session"
           /\ last'.result
           /\ last'.session_id = i
           /\ last'.user_id = sessions[i].manager_id]_vars

\* ------------------------------------------- the dispatch of handle_update
\* updates handed to handle_update on one table
MaxDispatched == 1

\* texts update["message"]["text"] can be
UpdateTexts == ClientTexts \cup ManagerTexts \cup {"/close", "close_button"}

\* the update dicts: callback_query is the data of update["callback_query"], or
\* NoText when the update has no such key; message says whether the update has
\* the key "message", text is update["message"]["text"], or NoText when the
\* message has no text (a photo, a sticker); from is the id of the sender
Updates ==
    {u \in [callback_query : {NoText, "accept_session", "close_session"},
            message : BOOLEAN,
            text : UpdateTexts \cup {NoText},
            from : Managers \cup Chats] : u.text # NoText => u.message}

\* a dispatch that looks at the message first
handle_update_path_message_first(b, u) ==
    IF u.message /\ u.text # NoText
    THEN IF u.from \in Range(manager_ids[b]) THEN "manager" ELSE "client"
    ELSE IF u.callback_query # NoText THEN "callback_query" ELSE "ignored"

\* the tests of handle_update, in their order: "callback_query" in update; then
\* "message" not in update or "text" not in update["message"]; then user_id in
\* the manager ids
handle_update_path(b, u) ==
    IF u.callback_query # NoText THEN "callback_query"
    ELSE IF ~u.message \/ u.text = NoText THEN "ignored"
    ELSE IF u.from \in Range(manager_ids[b]) THEN "manager"
    ELSE "client"

\* logger.info("Update ignored (no message or text)"); return
handle_update_ignored(b, u) ==
    /\ FreeTask
    /\ n_updates < MaxUpdates
    /\ n_updates' = n_updates + 1
    /\ update' = [NoUpdate EXCEPT !.kind = "ignored", !.bot_id = b, !.user_id = u.from]
    /\ last' = NoCall
    /\ sent' = <<>>
    /\ UNCHANGED <<sessions, messages, active_sessions, tasks, accepted>>

\* handle_update(update, on_message_callback) of the bot b
handle_update(b, u) ==
    LET path == handle_update_path(b, u)
    IN CASE path = "callback_query" ->
              IF u.callback_query = "accept_session"
              THEN \E sid \in CallbackIds : handle_update_accept(b, u.from, sid)
              ELSE \E answer_ok \in BOOLEAN :
                      handle_update_close_callback(b, u.from, answer_ok)
         [] path = "ignored" -> handle_update_ignored(b, u)
         [] path = "manager" ->
              IF u.text \in {"/close", "close_button"}
              THEN handle_update_close(b, u.from, u.text = "close_button")
              ELSE handle_update_manager_text(b, u.from, u.text)
         [] path = "client" ->
              IF u.text = "/start"
              THEN \E reply \in BOOLEAN : handle_update_start(b, u.from, reply)
              ELSE \E reply \in BOOLEAN, notice_ok \in BOOLEAN :
                      handle_update_text(b, u.from, u.text, reply, notice_ok)

\* at most MaxDispatched updates of any shape are handed to handle_update, each
\* when the handler of the one before has ended: the tests of the dispatch read
\* the update and manager_ids only, so handlers that interleave (Spec, SpecTxt)
\* dispatch the same way
NextDispatch ==
    \/ /\ n_updates < MaxDispatched
       /\ tasks = EmptyBag
       /\ \E b \in Bots, u \in Updates : handle_update(b, u)
    \/ (Resume \/ ResumeText) /\ update' = NoUpdate

SpecDispatch == InitSvc /\ [][NextDispatch /\ UNCHANGED <<ingress, console>>]_vars

\* C32: every update goes down exactly one path.  An update with a callback
\* payload is handled as a callback of its sender, whether or not it has a
\* message as well; an update with neither a callback payload nor a text is
\* dropped: no session, Message row or cache entry changes, no handler is left
\* running and no provider call is made; any other update of a manager starts
\* with the by-manager lookup of the manager handler, and any other update of a
\* client is handled as "/start" or as a client text, never by that lookup
C32_OnePathPerUpdate ==
    [][\A b \in Bots, u \in Updates :
        update'.user_id = u.from /\ handle_update(b, u) =>
          IF u.callback_query # NoText
          THEN /\ update'.kind = "callback_query"
               /\ update'.user_id = u.from
               /\ update'.text = u.callback_query
          ELSE IF ~u.message \/ u.text = NoText
          THEN /\ update'.kind = "ignored"
               /\ UNCHANGED <<sessions, messages, active_sessions, tasks>>
               /\ sent' = <<>>
          ELSE /\ update' = Message(b, u.from, u.text, update'.reply)
               /\ IF is_manager(b, u.from)
                  THEN last'.op = "get_active_session_by_manager_id"
                  ELSE /\ last'.op # "get_active_session_by_manager_id"
                       /\ \A t \in NewTasks :
                             t.pc \in {"send_message_record", "free_select",
                                       "get_or_create_select", "text_record",
                                       "reply_lookup"}]_vars

\* an update with no callback and no text was dropped while a session was open
C32_Witness ==
    /\ update.kind = "ignored"
    /\ n_updates = 1
    /\ \E i \in DOMAIN sessions : sessions[i].status \in OpenStatus
    /\ tasks = EmptyBag /\ messages = <<>> /\ sent = <<>>

\* ------------------------------------------- the routing cache, warm or cold
\* what get_or_create_session(b, c) does when it runs on the table as it is,
\* the routing cache being cache: the id it returns (NoSession when
\* scalar_one_or_none raises) and whether it inserts a session
get_or_create_session_result(cache, b, c) ==
    LET session == scalar_one_or_none(OpenByChat(b, c))
    IN IF cache[<<b, c>>] # NoSession
       THEN [session_id |-> cache[<<b, c>>], created |-> FALSE]
       ELSE IF session.raised THEN [session_id |-> NoSession, created |-> FALSE]
       ELSE IF session.id # NoSession THEN [session_id |-> session.id, created |-> FALSE]
       ELSE [session_id |-> Len(sessions) + 1, created |-> TRUE]

\* SessionService.__init__: self.active_sessions = {}, the cache after a restart
ColdCache == [k \in CacheKeys |-> NoSession]

\* C33: the routing cache is only an optimization: whenever the handlers have
\* returned, get_or_create_session(b, c) returns the same session id, and
\* creates a session in the same cases, with the cache as it is and with the
\* cache emptied as by a restart
C33_CacheIsOnlyAnOptimization ==
    tasks = EmptyBag
    => \A b \in Bots, c \in Chats :
          get_or_create_session_result(active_sessions, b, c)
            = get_or_create_session_result(ColdCache, b, c)

\* ------------------------------------- the handlers on the event loop
\* an exception that leaves the coroutine of request i takes the loop down: the
\* coroutines that have not ended are dropped
handler_fail_stops_loop(i) ==
    /\ i \in DOMAIN handlers
    /\ handlers[i] = "running"
    /\ handlers' = [j \in DOMAIN handlers |->
                      IF j = i THEN "failed"
                      ELSE IF handlers[j] \in {"scheduled", "running"} THEN "dropped"
                      ELSE handlers[j]]
    /\ request' = NoRequest
    /\ UNCHANGED <<requests, router, console>>

\* an exception leaves the coroutine of request i (handle_update catches none:
\* a provider call that raises, a lookup that raises, an update that is no
\* dict): run_coroutine_threadsafe keeps it in the future nobody reads, and the
\* loop goes on with the other coroutines
handler_fail(i) ==
    /\ i \in DOMAIN handlers
    /\ handlers[i] = "running"
    /\ handlers' = [handlers EXCEPT ![i] = "failed"]
    /\ request' = NoRequest
    /\ UNCHANGED <<requests, router, console>>

NextWHLoop == NextWH \/ \E i \in 1..MaxRequests : handler_fail(i)

\* the request threads keep being scheduled, and so are the coroutines of the
\* event loop: a coroutine handed to the loop is started, and a started one
\* ends, every storage and provider await of a handler returning or raising
SpecWHLoop ==
    /\ InitWH /\ [][NextWHLoop]_vars
    /\ \A i \in 1..MaxRequests :
          /\ WF_vars(do_POST_ack(i))
          /\ WF_vars(handler_start(i))
          /\ WF_vars(handler_end(i) \/ handler_fail(i))

\* the coroutine of request i has ended: it returned, or its exception is kept
HandlerEnded(i) == handlers[i] \in {"finished", "failed"}

\* C34: an update of a POST that is answered 200 is handed to the handler of
\* its route once: its coroutine is scheduled with the request and then only
\* moves on (scheduled, running, ended), and a step of one coroutine, its
\* failure included, changes no other coroutine; with the loop scheduled
\* fairly every coroutine handed to it ends, by returning or by an exception
\* that is kept, whatever the coroutines handed over before or after it did
C34_HandedOffHandlersEnd ==
    /\ [][\A i \in DOMAIN requests' :
            /\ requests'[i].method = "POST" /\ requests'[i].status = 200
               => handlers'[i] # "none"
            /\ i \in DOMAIN requests /\ handlers'[i] # handlers[i]
               => /\ <<handlers[i], handlers'[i]>> \in
                        {<<"scheduled", "running">>, <<"running", "finished">>,
                         <<"running", "failed">>}
                  /\ \A j \in DOMAIN requests \ {i} : handlers'[j] = handlers[j]]_vars
    /\ \A i \in 1..MaxRequests :
          (i \in DOMAIN requests /\ handlers[i] = "scheduled")
             ~> (i \in DOMAIN requests /\ HandlerEnded(i))

\* two updates were answered 200: the handler of the first failed, and the
\* handler of the second, handed over after it, returned
C34_Witness ==
    /\ Len(requests) = 2
    /\ requests[1].status = 200 /\ requests[2].status = 200
    /\ handlers[1] = "failed"
    /\ handlers[2] = "finished"

\* ----------------------------------------------------------- lost races
\* C35: a close_session or accept_session call that returns False: the manager
\* that acted is told of the failure ("no active session" for a close, "could
\* not accept" for an accept) and is sent no confirmation, the client is sent
\* no closure notice and no greeting, and the handler ends there: it goes on
\* neither to the queue step nor to the greeting
C35_LostRaceIsOnlyReported ==
    [][(last'.op \in {"close_session", "accept_session"} /\ ~last'.result)
        => /\ sent' = IF last'.op = "close_session"
                      THEN <<NoActiveNotice(last'.user_id)>>
                      ELSE <<Answer(last'.user_id, "accept_failed")>>
           /\ NewTasks = {}
           /\ UNCHANGED <<sessions, messages>>]_vars

\* ------------------------------------------------------ duplicate sessions
\* a get_or_create_session call for (b, c) is suspended at a storage await
Resolving(b, c) ==
    \E tk \in Running :
        /\ tk.bot_id = b /\ tk.chat_id = c
        /\ tk.pc \in {"get_or_create_select", "get_or_create_commit",
                      "get_or_create_refresh"}

\* C36: get_or_create_session calls for one (bot_id, chat_id) that run together
\* leave at most two open sessions for the pair, and once they have returned
\* the pair is routed again: get_active_session_by_chat_id returns (it does not
\* raise), and when it returns a session get_or_create_session returns that
\* same session and inserts nothing
C36_DuplicatesSelfHeal ==
    \A b \in Bots, c \in Chats :
        /\ Cardinality(OpenByChat(b, c)) <= 2
        /\ ~Resolving(b, c)
           => LET found == get_active_session_by_chat_id(b, c)
                  resolved == get_or_create_session_result(active_sessions, b, c)
              IN /\ ~found.raised
                 /\ found.id # NoSession
                    => resolved = [session_id |-> found.id, created |-> FALSE]

\* ------------------------------------------------------ the cache entries
\* C37: in every state each entry (bot_id, chat_id) -> session_id of the routing
\* cache names a session that exists, has that bot_id and chat_id, and is
\* waiting or active: no entry names a closed session
C37_CacheEntriesAreOpenSessions ==
    \A k \in CacheKeys :
        active_sessions[k] # NoSession
        => /\ active_sessions[k] \in DOMAIN sessions
           /\ <<sessions[active_sessions[k]].bot_id,
                sessions[active_sessions[k]].chat_id>> = k
           /\ sessions[active_sessions[k]].status \in OpenStatus

\* ------------------------------------------------- rows of closed sessions
\* C38: no Message row is recorded for a session that is closed: a step that
\* adds a row adds it to a session that is not closed before the step; so after
\* every step the two transcripts of a closed session list its Message rows,
\* the incoming ones and the others
C38_NoRowAfterClosure ==
    [][/\ \A i \in (DOMAIN messages') \ (DOMAIN messages) :
            messages'[i].session_id \in DOMAIN sessions
            => sessions[messages'[i].session_id].status # "closed"
       /\ \A sid \in DOMAIN sessions' :
            sessions'[sid].status = "closed"
            => /\ sessions'[sid].messages_client = MessagesOf(sid, TRUE)'
               /\ sessions'[sid].messages_ai = MessagesOf(sid, FALSE)']_vars

\* ----------------------------------------------- two bots on one database
\* rows of the sessions table when the updates of bot b1 are handled
MaxBotRows == 2

\* a row of any bot: the sessions of all bots share the table and its ids
BotRow(b, cell, rank) == [UpdRow(cell, rank) EXCEPT !.bot_id = b]

BotTables ==
    UNION {{[i \in 1..n |-> BotRow(q[i][1], q[i][2], i)] :
                q \in [1..n -> FMBots \X FMCells]} : n \in 0..MaxBotRows}

\* the SessionService of bot b1 starts on a table that holds sessions of b1 and
\* of b2
InitBots ==
    /\ sessions \in BotTables
    /\ messages = <<>>
    /\ active_sessions \in {CacheOf(sessions, filled) : filled \in BOOLEAN}
    /\ tasks = EmptyBag
    /\ n_updates = 0
    /\ accepted = [i \in 1..(MaxBotRows + MaxArrivals) |-> {}]
    /\ last = NoCall
    /\ update = NoUpdate
    /\ sent = <<>>
    /\ IngressIdle
    /\ LoggerIdle

\* the updates of bot b1, handled on a table of both bots
SpecBots == InitBots /\ [][NextUpd /\ UNCHANGED <<ingress, console>>]_vars

\* session i keeps its status and its manager in this step
Untouched(i) ==
    /\ sessions'[i].status = sessions[i].status
    /\ sessions'[i].manager_id = sessions[i].manager_id

\* C39: bots are isolated: a step of the handler of an update of bot B, the
\* step that takes the update in or a later one, changes the status and the
\* manager of no session whose bot_id is not B, whatever session id the data of
\* an accept callback carries
C39_BotsAreIsolated ==
    [][/\ update'.kind # "none"
          => \A i \in DOMAIN sessions :
                sessions[i].bot_id # update'.bot_id => Untouched(i)
       /\ \A tk \in Running :
            Stepped(tk)
            => \A i \in DOMAIN sessions :
                  sessions[i].bot_id # tk.bot_id => Untouched(i)]_vars

\* --------------------------------------------------- lookups that raise
\* C40: no session gets stuck: in every state the lookup a close command of a
\* manager starts with (get_active_session_by_manager_id) and the lookup a text
\* of a client starts with (get_active_session_by_chat_id) return, they do not
\* raise, so the close command finds the manager's active session and the text
\* is routed to the chat's open session
C40_LookupsNeverFail ==
    /\ \A b \in Bots, m \in Managers : ~get_active_session_by_manager_id(b, m).raised
    /\ \A b \in Bots, c \in Chats : ~get_active_session_by_chat_id(b, c).raised

====
